---- MODULE Spec2Model ----
(***************************************************************************)
(* A model of lmdb_mcp/server.py: JSON documents in an ordered key/value   *)
(* store (LMDB), with filtered search, paginated listing, counting,        *)
(* existence-checked insert, read-modify-write column updates and the      *)
(* resumable next_pending scan.                                            *)
(*                                                                         *)
(* The store is the ordered content of the LMDB B-tree: a sequence of      *)
(* (key, raw bytes) records strictly increasing in byte-wise key order.    *)
(* Keys are sequences of byte values.  Raw bytes are either the text of a  *)
(* JSON object (its members in textual order) or bytes that are no JSON.   *)
(* Python values, JSON tokens and Python dicts (insertion ordered) are     *)
(* kept apart so that json.dumps / json.loads are real conversions.        *)
(***************************************************************************)
EXTENDS Integers, Sequences, FiniteSets, TLC

VARIABLES store,   \* committed content of the LMDB environment
          qcall,   \* the read-only call in progress (SpecRead)
          qout,    \* its outcome
          writer,  \* the caller holding LMDB's writer lock, 0 when free
          pc,      \* where each caller of a mutation handler stands
          call,    \* the handler it called and the arguments
          view,    \* the store as its write transaction saw it at begin
          loc,     \* the handler's locals: raw / existing, a pending exception
          dirty,   \* the records its transaction has put, not yet committed
          ret,     \* what the call returned or raised
          calls    \* number of mutation calls made so far

qvars == <<qcall, qout>>
mvars == <<writer, pc, call, view, loc, dirty, ret, calls>>
vars == <<store, qcall, qout, writer, pc, call, view, loc, dirty, ret, calls>>

-----------------------------------------------------------------------------
(* Bounds of the model *)

\* at most this many records in a small store
MaxRecords == 3
\* largest store used to exercise pagination
MaxBig == 401
\* mutation calls made in one behaviour
MaxCalls == 2

-----------------------------------------------------------------------------
(* Python values and Python's == *)

PyNone == [t |-> "none", n |-> 0]
PyInt(i) == [t |-> "int", n |-> i]
\* True is PyBool(1), False is PyBool(0)
PyBool(b) == [t |-> "bool", n |-> b]
\* PyStr(i) is the string holding the decimal digits of i, e.g. "1"
PyStr(i) == [t |-> "str", n |-> i]
\* object(): a value json.dumps cannot serialize
PyObject == [t |-> "object", n |-> 0]

\* Python's ==: bool is a subclass of int, so True == 1 and False == 0;
\* a fresh object() equals nothing but itself.
PyEq(a, b) ==
    IF a.t \in {"int", "bool"} /\ b.t \in {"int", "bool"} THEN a.n = b.n
    ELSE IF a.t = "object" \/ b.t = "object" THEN FALSE
    ELSE a = b

-----------------------------------------------------------------------------
(* Python dicts: members in insertion order *)

HasName(data, f) == \E i \in DOMAIN data : data[i].name = f

\* data.get(f): the value, or None when f is missing
DictGet(data, f) ==
    IF HasName(data, f)
    THEN data[CHOOSE i \in DOMAIN data : data[i].name = f].val
    ELSE PyNone

\* data[f] = v: replaced in place, or appended
DictSet(data, f, v) ==
    IF HasName(data, f)
    THEN [i \in DOMAIN data |->
            IF data[i].name = f THEN [name |-> f, val |-> v] ELSE data[i]]
    ELSE Append(data, [name |-> f, val |-> v])

RECURSIVE DictUpdate(_, _)
\* data.update(updates)
DictUpdate(data, updates) ==
    IF updates = <<>> THEN data
    ELSE DictUpdate(DictSet(data, Head(updates).name, Head(updates).val),
                    Tail(updates))

Names(data) == {data[i].name : i \in DOMAIN data}

\* the mapping a dict denotes, whatever the order of its members
AsMap(data) == [f \in Names(data) |-> DictGet(data, f)]

-----------------------------------------------------------------------------
(* The document codec: json.dumps / json.loads *)

\* bytes that are not JSON text (b"not-json")
NotJson == [json |-> FALSE, members |-> <<>>]
\* b"": what an unpositioned cursor yields
EmptyBytes == [json |-> FALSE, members |-> <<>>]

Serializable(data) == \A i \in DOMAIN data : data[i].val.t # "object"

DumpsValue(v) ==
    CASE v.t = "none" -> [t |-> "null", n |-> 0]
      [] v.t = "bool" -> [t |-> IF v.n = 1 THEN "true" ELSE "false", n |-> 0]
      [] v.t = "int"  -> [t |-> "number", n |-> v.n]
      [] v.t = "str"  -> [t |-> "string", n |-> v.n]

LoadsValue(tok) ==
    CASE tok.t = "null"   -> PyNone
      [] tok.t = "true"   -> PyBool(1)
      [] tok.t = "false"  -> PyBool(0)
      [] tok.t = "number" -> PyInt(tok.n)
      [] tok.t = "string" -> PyStr(tok.n)

\* json.dumps(data).encode(), for a serializable dict
Dumps(data) ==
    [json |-> TRUE,
     members |-> [i \in DOMAIN data |->
                    [name |-> data[i].name, tok |-> DumpsValue(data[i].val)]]]

\* json.loads raises JSONDecodeError unless this holds
JsonValid(raw) == raw.json

RECURSIVE LoadsMembers(_, _)
LoadsMembers(ms, acc) ==
    IF ms = <<>> THEN acc
    ELSE LoadsMembers(Tail(ms),
                      DictSet(acc, Head(ms).name, LoadsValue(Head(ms).tok)))

\* json.loads(raw), for valid JSON text (a repeated name keeps its last value)
Loads(raw) == LoadsMembers(raw.members, <<>>)

-----------------------------------------------------------------------------
(* The ordered store and its transactions' point operations *)

\* byte-wise key order (memcmp, then length)
KeyLess(a, b) ==
    \/ \E i \in 1..Len(a) :
          /\ i <= Len(b)
          /\ a[i] < b[i]
          /\ \A j \in 1..(i - 1) : a[j] = b[j]
    \/ /\ Len(a) < Len(b)
       /\ \A j \in 1..Len(a) : a[j] = b[j]

HasKey(s, k) == \E i \in DOMAIN s : s[i].k = k

\* txn.get(k), for a key that is present
TxnGet(s, k) == s[CHOOSE i \in DOMAIN s : s[i].k = k].v

\* txn.put(k, v): overwrite, or insert at the key's place
TxnPut(s, k, v) ==
    IF HasKey(s, k)
    THEN [i \in DOMAIN s |-> IF s[i].k = k THEN [k |-> k, v |-> v] ELSE s[i]]
    ELSE LET n == Cardinality({i \in DOMAIN s : KeyLess(s[i].k, k)})
         IN  SubSeq(s, 1, n) \o <<[k |-> k, v |-> v]>> \o SubSeq(s, n + 1, Len(s))

-----------------------------------------------------------------------------
(* Cursors (py-lmdb): a position in the ordered store, 0 when unpositioned *)

\* cursor.first(): False (unpositioned) on an empty database
CursorFirst(s) == IF Len(s) > 0 THEN 1 ELSE 0

\* cursor.set_range(k): the first key >= k, unpositioned when k is past the end
CursorSetRange(s, k) ==
    IF \E i \in DOMAIN s : ~KeyLess(s[i].k, k)
    THEN CHOOSE i \in DOMAIN s :
            /\ ~KeyLess(s[i].k, k)
            /\ \A j \in 1..(i - 1) : KeyLess(s[j].k, k)
    ELSE 0

\* cursor.next() from a positioned cursor: unpositioned after the last key
CursorNext(s, pos) == IF pos < Len(s) THEN pos + 1 ELSE 0

\* cursor.key(): py-lmdb returns the empty bytestring b"" when unpositioned
CursorKey(s, pos) == IF pos = 0 THEN <<>> ELSE s[pos].k

\* cursor.value(): b"" when unpositioned
CursorValue(s, pos) == IF pos = 0 THEN EmptyBytes ELSE s[pos].v

\* "cursor.key() is not None": key() always returns a bytes object
KeyIsNotNone(k) == k \in Seq(Nat)

-----------------------------------------------------------------------------
(* Outcomes of a call *)

NoKey == [some |-> FALSE, k |-> <<>>]
SomeKey(k) == [some |-> TRUE, k |-> k]
NoDoc == [some |-> FALSE, d |-> <<>>]
SomeDoc(d) == [some |-> TRUE, d |-> d]
NoPage == [some |-> FALSE, p |-> 0]
SomePage(p) == [some |-> TRUE, p |-> p]

Outcome(st, exc, key, doc, list, next, cnt) ==
    [st |-> st, exc |-> exc, key |-> key, doc |-> doc, list |-> list,
     next |-> next, count |-> cnt]

Raise(exc) == Outcome("raised", exc, NoKey, NoDoc, <<>>, NoPage, 0)

-----------------------------------------------------------------------------
(* Pagination *)

\* search: limit = 10
SearchLimit == 10
\* list_keys: limit = 200
ListLimit == 200

\* a slice that does not count a negative bound from the end
PySliceNoWrap(list, lo, hi) ==
    LET n == Len(list)
        clamp(x) == IF x < 0 THEN 0 ELSE (IF x > n THEN n ELSE x)
    IN  SubSeq(list, clamp(lo) + 1, clamp(hi))

\* Python's list[lo:hi]: a negative bound counts from the end, and both are
\* clamped to the list
PySlice(list, lo, hi) ==
    LET n == Len(list)
        clamp(x) == IF x < 0 THEN (IF x + n < 0 THEN 0 ELSE x + n)
                    ELSE (IF x > n THEN n ELSE x)
    IN  SubSeq(list, clamp(lo) + 1, clamp(hi))

PageOffset(page, limit) == (page - 1) * limit

PageSlice(list, page, limit) ==
    PySlice(list, PageOffset(page, limit), PageOffset(page, limit) + limit)

\* an off-by-one in the comparison that decides whether a page follows
NextPageOffByOne(n, page, limit) ==
    IF PageOffset(page, limit) + limit <= n THEN SomePage(page + 1) ELSE NoPage

NextPage(n, page, limit) ==
    IF PageOffset(page, limit) + limit < n THEN SomePage(page + 1) ELSE NoPage

-----------------------------------------------------------------------------
(* The read-only handlers, as functions of the snapshot they read *)

\* search's loop: json.loads of every record, in key order
Matched(s, field, value) ==
    LET hit(r) == PyEq(DictGet(Loads(r.v), field), value)
        m == SelectSeq(s, hit)
    IN  [i \in DOMAIN m |-> [key |-> m[i].k, value |-> Loads(m[i].v)]]

search(s, field, value, page) ==
    IF \E i \in DOMAIN s : ~JsonValid(s[i].v) THEN Raise("JSONDecodeError")
    ELSE LET matched == Matched(s, field, value)
         IN  Outcome("ok", "", NoKey, NoDoc,
                     PageSlice(matched, page, SearchLimit),
                     NextPage(Len(matched), page, SearchLimit), 0)

\* key is the text of the key argument; LMDB rejects an empty key
get_row(s, key) ==
    IF key = <<>> THEN Raise("BadValsizeError")
    ELSE IF ~HasKey(s, key)
         THEN Outcome("ok", "", SomeKey(key), NoDoc, <<>>, NoPage, 0)
    ELSE IF ~JsonValid(TxnGet(s, key)) THEN Raise("JSONDecodeError")
    ELSE Outcome("ok", "", SomeKey(key), SomeDoc(Loads(TxnGet(s, key))),
                 <<>>, NoPage, 0)

AllKeys(s) == [i \in DOMAIN s |-> s[i].k]

list_keys(s, page) ==
    Outcome("ok", "", NoKey, NoDoc,
            PageSlice(AllKeys(s), page, ListLimit),
            NextPage(Len(AllKeys(s)), page, ListLimit), 0)

\* key_str.startswith(prefix)
StartsWith(k, prefix) ==
    /\ Len(prefix) <= Len(k)
    /\ \A j \in 1..Len(prefix) : k[j] = prefix[j]

count(s, prefix, column, value) ==
    IF \E i \in DOMAIN s : StartsWith(s[i].k, prefix) /\ ~JsonValid(s[i].v)
    THEN Raise("JSONDecodeError")
    ELSE LET hit(r) == /\ StartsWith(r.k, prefix)
                       /\ PyEq(DictGet(Loads(r.v), column), value)
         IN  Outcome("ok", "", NoKey, NoDoc, <<>>, NoPage, Len(SelectSeq(s, hit)))

\* "if after_key:" -- None and "" are both falsy
Truthy(after) == after.some /\ after.k # <<>>

\* the cursor's position when the while loop is entered
StartPos(s, after) ==
    IF Truthy(after)
    THEN LET found == CursorSetRange(s, after.k)
         IN  IF found # 0 /\ CursorKey(s, found) = after.k
             THEN CursorNext(s, found)
             ELSE found
    ELSE CursorFirst(s)

\* one pass through the body of next_pending's while loop with the cursor at
\* pos leaves the loop early: json.loads raises, or the column equals 1
LeavesLoop(s, pos, column) ==
    \/ ~JsonValid(CursorValue(s, pos))
    \/ PyEq(DictGet(Loads(CursorValue(s, pos)), column), PyInt(1))

\* what that pass raises or returns
LoopBody(s, pos, column) ==
    IF ~JsonValid(CursorValue(s, pos)) THEN Raise("JSONDecodeError")
    ELSE Outcome("ok", "", SomeKey(CursorKey(s, pos)),
                 SomeDoc(Loads(CursorValue(s, pos))), <<>>, NoPage, 0)

\* the while loop of next_pending, entered with the cursor at pos: the body
\* runs at pos, then at each position cursor.next() reaches, until it raises
\* or returns, or until cursor.next() fails ("break")
Scanning(s, pos, column) ==
    IF ~KeyIsNotNone(CursorKey(s, pos))
    THEN Outcome("ok", "", NoKey, NoDoc, <<>>, NoPage, 0)
    ELSE IF LeavesLoop(s, pos, column) THEN LoopBody(s, pos, column)
    ELSE LET rest == {i \in (pos + 1)..Len(s) : LeavesLoop(s, i, column)}
         IN  IF pos = 0 \/ rest = {}
             THEN Outcome("ok", "", NoKey, NoDoc, <<>>, NoPage, 0)
             ELSE LoopBody(s, CHOOSE i \in rest : \A j \in rest : i <= j,
                           column)

next_pending(s, column, after) == Scanning(s, StartPos(s, after), column)

-----------------------------------------------------------------------------
(* The mutation handlers: one write transaction each *)

Procs == {1, 2}

\* a key argument: a str (its text in b), or a bytes object
StrKey(b) == [isstr |-> TRUE, b |-> b]
BytesKey(b) == [isstr |-> FALSE, b |-> b]

NoArgs ==
    [op |-> "none", key |-> StrKey(<<>>), column |-> "", value |-> PyNone,
     doc |-> <<>>]

NoLoc == [found |-> FALSE, raw |-> EmptyBytes, exc |-> ""]
NoRet == [st |-> "none", flag |-> FALSE, exc |-> ""]

\* a begin that does not wait for the writer lock
CanBeginWriteUnlocked(p) == TRUE

\* env.begin(write=True) returns once no other write transaction is active
CanBeginWrite(p) == writer = 0

\* txn.get(key.encode()): a bytes object has no encode(); LMDB rejects an
\* empty key
GetRaises(key) ==
    IF ~key.isstr THEN "AttributeError"
    ELSE IF key.b = <<>> THEN "BadValsizeError"
    ELSE ""

\* "existing is not None" / "raw is None"
IsPresent(s, key) == HasKey(s, key.b)

StepResult(exc, flag, puts) == [exc |-> exc, flag |-> flag, puts |-> puts]

\* a create_record that stores the document whether or not the key exists
create_record_overwrite(c, found, raw) ==
    IF ~Serializable(c.doc) THEN StepResult("TypeError", FALSE, <<>>)
    ELSE StepResult("", TRUE, <<[k |-> c.key.b, v |-> Dumps(c.doc)]>>)

\* create_record after its point lookup: lines 137-139
create_record(c, found, raw) ==
    IF found THEN StepResult("", FALSE, <<>>)
    ELSE IF ~Serializable(c.doc) THEN StepResult("TypeError", FALSE, <<>>)
    ELSE StepResult("", TRUE, <<[k |-> c.key.b, v |-> Dumps(c.doc)]>>)

\* a set_value that stores the column alone when the key is missing
set_value_upsert(c, found, raw) ==
    IF found /\ ~JsonValid(raw) THEN StepResult("JSONDecodeError", FALSE, <<>>)
    ELSE LET data == DictSet(IF found THEN Loads(raw) ELSE <<>>,
                             c.column, c.value)
         IN  IF ~Serializable(data) THEN StepResult("TypeError", FALSE, <<>>)
             ELSE StepResult("", TRUE, <<[k |-> c.key.b, v |-> Dumps(data)]>>)

\* set_value after its point lookup: lines 164-168
set_value(c, found, raw) ==
    IF ~found THEN StepResult("", FALSE, <<>>)
    ELSE IF ~JsonValid(raw) THEN StepResult("JSONDecodeError", FALSE, <<>>)
    ELSE LET data == DictSet(Loads(raw), c.column, c.value)
         IN  IF ~Serializable(data) THEN StepResult("TypeError", FALSE, <<>>)
             ELSE StepResult("", TRUE, <<[k |-> c.key.b, v |-> Dumps(data)]>>)

\* a set_columns that stores the updates in place of the merged document
set_columns_replace(c, found, raw) ==
    IF ~found THEN StepResult("", FALSE, <<>>)
    ELSE IF ~JsonValid(raw) THEN StepResult("JSONDecodeError", FALSE, <<>>)
    ELSE IF ~Serializable(c.doc) THEN StepResult("TypeError", FALSE, <<>>)
    ELSE StepResult("", TRUE, <<[k |-> c.key.b, v |-> Dumps(c.doc)]>>)

\* set_columns after its point lookup: lines 187-191
set_columns(c, found, raw) ==
    IF ~found THEN StepResult("", FALSE, <<>>)
    ELSE IF ~JsonValid(raw) THEN StepResult("JSONDecodeError", FALSE, <<>>)
    ELSE LET data == DictUpdate(Loads(raw), c.doc)
         IN  IF ~Serializable(data) THEN StepResult("TypeError", FALSE, <<>>)
             ELSE StepResult("", TRUE, <<[k |-> c.key.b, v |-> Dumps(data)]>>)

Body(c, found, raw) ==
    CASE c.op = "create_record" -> create_record(c, found, raw)
      [] c.op = "set_value"     -> set_value(c, found, raw)
      [] c.op = "set_columns"   -> set_columns(c, found, raw)

RECURSIVE ApplyPuts(_, _)
\* commit: the transaction's puts reach the store
ApplyPuts(s, puts) ==
    IF puts = <<>> THEN s
    ELSE ApplyPuts(TxnPut(s, Head(puts).k, Head(puts).v), Tail(puts))

MutIdle ==
    /\ writer = 0
    /\ pc = [p \in Procs |-> "idle"]
    /\ call = [p \in Procs |-> NoArgs]
    /\ view = [p \in Procs |-> <<>>]
    /\ loc = [p \in Procs |-> NoLoc]
    /\ dirty = [p \in Procs |-> <<>>]
    /\ ret = [p \in Procs |-> NoRet]
    /\ calls = 0

-----------------------------------------------------------------------------
(* Stores and arguments the read-only handlers are exercised on *)

Fields == {"status", "extra"}

Doc1(f, v) == <<[name |-> f, val |-> v]>>

\* what a record of a small store may hold
ScanRaws ==
    {Dumps(Doc1("status", v)) :
        v \in {PyInt(1), PyInt(0), PyBool(1), PyStr(1), PyNone}}
    \cup {Dumps(Doc1("extra", PyInt(1))), NotJson}

ScanKeys == {<<1>>, <<1, 1>>, <<1, 2>>, <<2>>}

\* key arguments: present or absent, before, between and past the stored keys
KeyArgs == ScanKeys \cup {<<2, 1>>, <<2, 2>>}

RECURSIVE SortedStore(_)
\* the ordered store holding the mapping f (keys to raw bytes)
SortedStore(f) ==
    IF DOMAIN f = {} THEN <<>>
    ELSE LET k == CHOOSE x \in DOMAIN f :
                    \A y \in DOMAIN f \ {x} : KeyLess(x, y)
         IN  <<[k |-> k, v |-> f[k]]>>
             \o SortedStore([y \in DOMAIN f \ {k} |-> f[y]])

SmallStores ==
    UNION {{SortedStore(f) : f \in [S -> ScanRaws]} :
             S \in {T \in SUBSET ScanKeys : Cardinality(T) <= MaxRecords}}

\* the i-th key of a big store: two bytes, increasing with i
BigKey(i) == <<1 + (i \div 100), 1 + (i % 100)>>

\* n records; every m-th one has status 1, the others status 0
BigStore(n, m) ==
    [i \in 1..n |->
        [k |-> BigKey(i),
         v |-> Dumps(Doc1("status", IF i % m = 0 THEN PyInt(1) ELSE PyInt(0)))]]

\* store sizes around the multiples of the two page limits
BigSizes == (0..(2 * SearchLimit + 2))
            \cup ((ListLimit - 2)..(ListLimit + 2))
            \cup ((2 * ListLimit - 2)..MaxBig)

BigStores == {BigStore(n, m) : n \in BigSizes, m \in {1, 2}}

Targets == {PyInt(1), PyInt(0), PyStr(1), PyBool(1), PyNone}

MaxPage == 4
PageArgs == (0 - 2)..MaxPage

Prefixes == {<<>>, <<1>>, <<2>>}

AfterArgs == {NoKey, SomeKey(<<>>)} \cup {SomeKey(k) : k \in KeyArgs}

NoCall ==
    [op |-> "none", field |-> "", value |-> PyNone, page |-> 0, key |-> <<>>,
     prefix |-> <<>>, after |-> NoKey]

NoOut == Outcome("none", "", NoKey, NoDoc, <<>>, NoPage, 0)

-----------------------------------------------------------------------------
(* SpecRead: the read-only handlers applied to a store *)

InitRead ==
    /\ store \in SmallStores \cup BigStores
    /\ qcall = NoCall
    /\ qout = NoOut
    /\ MutIdle

Search ==
    /\ qcall = NoCall
    /\ \E f \in Fields, v \in Targets, p \in PageArgs :
        /\ qcall' = [NoCall EXCEPT !.op = "search", !.field = f, !.value = v,
                                   !.page = p]
        /\ qout' = search(store, f, v, p)
        /\ UNCHANGED <<store, mvars>>

GetRow ==
    /\ qcall = NoCall
    /\ \E k \in KeyArgs \cup {<<>>} :
        /\ qcall' = [NoCall EXCEPT !.op = "get_row", !.key = k]
        /\ qout' = get_row(store, k)
        /\ UNCHANGED <<store, mvars>>

ListKeys ==
    /\ qcall = NoCall
    /\ \E p \in PageArgs :
        /\ qcall' = [NoCall EXCEPT !.op = "list_keys", !.page = p]
        /\ qout' = list_keys(store, p)
        /\ UNCHANGED <<store, mvars>>

Count ==
    /\ qcall = NoCall
    /\ \E x \in Prefixes, c \in Fields, v \in Targets :
        /\ qcall' = [NoCall EXCEPT !.op = "count", !.prefix = x, !.field = c,
                                   !.value = v]
        /\ qout' = count(store, x, c, v)
        /\ UNCHANGED <<store, mvars>>

NextPending ==
    /\ qcall = NoCall
    /\ \E c \in Fields, a \in AfterArgs :
        /\ qcall' = [NoCall EXCEPT !.op = "next_pending", !.field = c,
                                   !.after = a]
        /\ qout' = next_pending(store, c, a)
        /\ UNCHANGED <<store, mvars>>

\* the response is delivered; the client may make its next call
Respond ==
    /\ qcall # NoCall
    /\ qcall' = NoCall
    /\ qout' = NoOut
    /\ UNCHANGED <<store, mvars>>

NextRead == Search \/ GetRow \/ ListKeys \/ Count \/ NextPending \/ Respond

SpecRead == InitRead /\ [][NextRead]_vars

-----------------------------------------------------------------------------
(* Notions the claims about the read-only handlers are stated in *)

AllValid(s) == \A i \in DOMAIN s : JsonValid(s[i].v)

\* the document holds the field, with a value of the target's JSON type and
\* value
StrictMatch(data, f, target) == HasName(data, f) /\ DictGet(data, f) = target

\* the key lies strictly after the resume point
After(k, after) == ~after.some \/ KeyLess(after.k, k)

Least(S) == CHOOSE i \in S : \A j \in S : i <= j

\* positions of the records after the resume point whose column is the
\* integer 1
PendingAfter(s, column, after) ==
    {i \in DOMAIN s : /\ After(s[i].k, after)
                      /\ JsonValid(s[i].v)
                      /\ StrictMatch(Loads(s[i].v), column, PyInt(1))}

\* the same, with the column compared by Python's ==
PyPendingAfter(s, column, after) ==
    {i \in DOMAIN s : /\ After(s[i].k, after)
                      /\ JsonValid(s[i].v)
                      /\ PyEq(DictGet(Loads(s[i].v), column), PyInt(1))}

\* the list a call paginates, and its page size
PagedList ==
    IF qcall.op = "search" THEN Matched(store, qcall.field, qcall.value)
    ELSE AllKeys(store)

PagedLimit == IF qcall.op = "search" THEN SearchLimit ELSE ListLimit

Paged == qcall.op \in {"search", "list_keys"} /\ qout.st = "ok"

\* C1: over a store of JSON documents, next_pending returns the smallest key
\* strictly after after_key whose document has the column equal to the
\* integer 1, with that document; after_key itself is never returned, and
\* after_key need not exist in the store.
C1_NextPendingSmallest ==
    (/\ qcall.op = "next_pending"
     /\ AllValid(store)
     /\ PendingAfter(store, qcall.field, qcall.after) # {})
    => LET i == Least(PendingAfter(store, qcall.field, qcall.after))
       IN  /\ qout.st = "ok"
           /\ qout.key = SomeKey(store[i].k)
           /\ qout.doc.some
           /\ AsMap(qout.doc.d) = AsMap(Loads(store[i].v))

\* C2: over a store of JSON documents, next_pending returns key null and
\* value null, without raising, whenever no record after the resume point
\* has the column equal to 1: empty store, after_key the last key, after_key
\* past every key, or only non-pending records left.
C2_NextPendingExhausted ==
    (/\ qcall.op = "next_pending"
     /\ AllValid(store)
     /\ PyPendingAfter(store, qcall.field, qcall.after) = {})
    => /\ qout.st = "ok"
       /\ qout.key = NoKey
       /\ qout.doc = NoDoc

\* C5: a document that lacks the queried field never matches, whatever the
\* target (null included): search returns no such record and count does not
\* count one.
C5_MissingFieldNeverMatches ==
    /\ (qcall.op = "search" /\ qout.st = "ok")
       => \A i \in DOMAIN qout.list : HasName(qout.list[i].value, qcall.field)
    /\ (qcall.op = "count" /\ qout.st = "ok")
       => qout.count =
            Cardinality({i \in DOMAIN store :
                           /\ StartsWith(store[i].k, qcall.prefix)
                           /\ HasName(Loads(store[i].v), qcall.field)
                           /\ PyEq(DictGet(Loads(store[i].v), qcall.field),
                                   qcall.value)})

\* C6: a field that is present matches only a target of the same JSON type
\* and value, in search, count and next_pending; next_pending returns only
\* records whose column is the integer 1, never boolean true.
C6_StrictTypedEquality ==
    /\ (qcall.op = "search" /\ qout.st = "ok")
       => \A i \in DOMAIN qout.list :
             HasName(qout.list[i].value, qcall.field)
             => DictGet(qout.list[i].value, qcall.field) = qcall.value
    /\ (qcall.op = "count" /\ qout.st = "ok")
       => qout.count <=
            Cardinality({i \in DOMAIN store :
                           /\ StartsWith(store[i].k, qcall.prefix)
                           /\ \/ ~HasName(Loads(store[i].v), qcall.field)
                              \/ StrictMatch(Loads(store[i].v), qcall.field,
                                             qcall.value)})
    /\ (qcall.op = "next_pending" /\ qout.st = "ok" /\ qout.doc.some)
       => StrictMatch(qout.doc.d, qcall.field, PyInt(1))

-----------------------------------------------------------------------------
(* Pagination claims *)

Min(a, b) == IF a < b THEN a ELSE b
Max(a, b) == IF a > b THEN a ELSE b

\* the handler the call names, for another page of the same query
SamePaged(p) ==
    IF qcall.op = "search" THEN search(store, qcall.field, qcall.value, p)
    ELSE list_keys(store, p)

RECURSIVE FollowPages(_)
\* the entries seen from page p on, following next_page until it is null
FollowPages(p) ==
    SamePaged(p).list
    \o (IF SamePaged(p).next.some THEN FollowPages(SamePaged(p).next.p)
        ELSE <<>>)

\* C4: for page p >= 1, search (limit 10) and list_keys (limit 200) return
\* exactly the entries at 0-based positions (p-1)*L .. p*L-1 of the key-ordered
\* list, and next_page = p+1 if the list has more than p*L entries, else null;
\* following next_page from page 1 visits every entry once, in order.
C4_PageWindow ==
    (Paged /\ qcall.page >= 1)
    => LET L == PagedLimit
           p == qcall.page
           n == Len(PagedList)
           cnt == Max(0, Min(L, n - (p - 1) * L))
       IN  /\ qout.list = [i \in 1..cnt |-> PagedList[(p - 1) * L + i]]
           /\ qout.next = IF n > p * L THEN SomePage(p + 1) ELSE NoPage
           /\ (n <= (p - 1) * L) => (qout.list = <<>> /\ qout.next = NoPage)
           /\ FollowPages(1) = PagedList

\* a last page of a list whose length is an exact multiple of the limit, and
\* a page past the end
C4_Witness ==
    /\ Paged
    /\ \/ /\ qcall.page = 2
          /\ Len(PagedList) = 2 * PagedLimit
          /\ Len(qout.list) = PagedLimit
          /\ qout.next = NoPage
       \/ /\ qcall.page = 3
          /\ Len(PagedList) = 2 * PagedLimit
          /\ qout.list = <<>>

\* C10: for page <= 0 the slice is matches[offset : offset+limit] with
\* offset = (page-1)*limit, negative bounds counted from the end and clamped
\* at the start, and next_page = page+1 if offset+limit < len, else null:
\* page 0 is always empty, with next_page 1 when the list is non-empty, and
\* list_keys page -1 over 200 < N < 400 keys gives the first N-200 keys and
\* next_page 0.
C10_NonPositivePage ==
    (Paged /\ qcall.page <= 0)
    => LET L == PagedLimit
           p == qcall.page
           n == Len(PagedList)
           lo == Max(n + (p - 1) * L, 0)
           hi == IF p = 0 THEN 0 ELSE Max(n + p * L, 0)
       IN  /\ qout.list = [i \in 1..(hi - lo) |-> PagedList[lo + i]]
           /\ qout.next = IF p * L < n THEN SomePage(p + 1) ELSE NoPage
           /\ (p = 0) => /\ qout.list = <<>>
                         /\ (n > 0) => (qout.next = SomePage(1))
           /\ (qcall.op = "list_keys" /\ p = 0 - 1 /\ n > L /\ n < 2 * L)
              => /\ qout.list = SubSeq(PagedList, 1, n - L)
                 /\ qout.next = SomePage(0)

\* list_keys with page -1 over more than 200 and fewer than 400 keys
C10_Witness ==
    /\ qcall.op = "list_keys"
    /\ qout.st = "ok"
    /\ qcall.page = 0 - 1
    /\ Len(store) > ListLimit
    /\ Len(store) < 2 * ListLimit
    /\ Len(qout.list) = Len(store) - ListLimit
    /\ qout.next = SomePage(0)

-----------------------------------------------------------------------------
(* Spec: callers of the mutation handlers, running concurrently *)

MutKeys == {<<1>>, <<2>>}

\* valid keys, the empty key and a bytes object
MutKeyArgs == {StrKey(k) : k \in MutKeys} \cup {StrKey(<<>>), BytesKey(<<1>>)}

\* a document of the tests' fixture ({"id": 1, "status": 0}), or bytes that
\* are no JSON
InitRaws ==
    {Dumps(<<[name |-> "id", val |-> PyInt(1)],
             [name |-> "status", val |-> PyInt(0)]>>),
     NotJson}

InitStores ==
    UNION {{SortedStore(f) : f \in [S -> InitRaws]} : S \in SUBSET MutKeys}

\* documents passed to create_record
NewDocs ==
    {Doc1("status", PyInt(1)),
     <<[name |-> "extra", val |-> PyStr(1)], [name |-> "status", val |-> PyBool(1)]>>,
     Doc1("extra", PyObject)}

\* values passed to set_value
NewValues == {PyInt(1), PyObject}

\* updates passed to set_columns
Updates ==
    {<<[name |-> "status", val |-> PyInt(1)], [name |-> "extra", val |-> PyNone]>>,
     Doc1("extra", PyObject)}

Init ==
    /\ store \in InitStores
    /\ qcall = NoCall
    /\ qout = NoOut
    /\ MutIdle

\* a caller enters a handler with arguments c
Enter(p, c) ==
    /\ pc[p] \in {"idle", "done"}
    /\ calls < MaxCalls
    /\ calls' = calls + 1
    /\ call' = [call EXCEPT ![p] = c]
    /\ pc' = [pc EXCEPT ![p] = "begin"]
    /\ view' = [view EXCEPT ![p] = <<>>]
    /\ loc' = [loc EXCEPT ![p] = NoLoc]
    /\ dirty' = [dirty EXCEPT ![p] = <<>>]
    /\ ret' = [ret EXCEPT ![p] = NoRet]
    /\ UNCHANGED <<store, writer, qvars>>

CreateRecord(p) ==
    \E k \in MutKeyArgs, d \in NewDocs :
        Enter(p, [NoArgs EXCEPT !.op = "create_record", !.key = k, !.doc = d])

SetValue(p) ==
    \E k \in MutKeyArgs, c \in Fields, v \in NewValues :
        Enter(p, [NoArgs EXCEPT !.op = "set_value", !.key = k, !.column = c,
                                !.value = v])

SetColumns(p) ==
    \E k \in MutKeyArgs, u \in Updates :
        Enter(p, [NoArgs EXCEPT !.op = "set_columns", !.key = k, !.doc = u])

\* "with env.begin(write=True) as txn:" -- the writer lock is taken and the
\* transaction sees the committed store
Begin(p) ==
    /\ pc[p] = "begin"
    /\ CanBeginWrite(p)
    /\ writer' = p
    /\ view' = [view EXCEPT ![p] = store]
    /\ pc' = [pc EXCEPT ![p] = "get"]
    /\ UNCHANGED <<store, call, loc, dirty, ret, calls, qvars>>

\* "raw = txn.get(key.encode())"
Get(p) ==
    /\ pc[p] = "get"
    /\ LET exc == GetRaises(call[p].key)
           found == exc = "" /\ IsPresent(view[p], call[p].key)
       IN  /\ loc' = [loc EXCEPT ![p] =
                        [found |-> found,
                         raw |-> IF found THEN TxnGet(view[p], call[p].key.b)
                                 ELSE EmptyBytes,
                         exc |-> exc]]
           /\ pc' = [pc EXCEPT ![p] = IF exc = "" THEN "body" ELSE "exit"]
    /\ UNCHANGED <<store, writer, call, view, dirty, ret, calls, qvars>>

\* the rest of the with block: the early return, or decode, merge, encode
\* and txn.put
RunBody(p) ==
    /\ pc[p] = "body"
    /\ LET r == Body(call[p], loc[p].found, loc[p].raw)
       IN  /\ loc' = [loc EXCEPT ![p].exc = r.exc]
           /\ dirty' = [dirty EXCEPT ![p] = r.puts]
           /\ ret' = [ret EXCEPT ![p].flag = r.flag]
    /\ pc' = [pc EXCEPT ![p] = "exit"]
    /\ UNCHANGED <<store, writer, call, view, calls, qvars>>

\* an exit that keeps the writer lock when the block raised
ExitLeak(p) ==
    /\ pc[p] = "exit"
    /\ IF loc[p].exc # ""
       THEN /\ store' = store
            /\ writer' = writer
            /\ ret' = [ret EXCEPT ![p] =
                         [st |-> "raised", flag |-> FALSE, exc |-> loc[p].exc]]
       ELSE /\ store' = ApplyPuts(store, dirty[p])
            /\ writer' = 0
            /\ ret' = [ret EXCEPT ![p].st = "ok"]
    /\ pc' = [pc EXCEPT ![p] = "done"]
    /\ UNCHANGED <<call, view, loc, dirty, calls, qvars>>

\* leaving the with block: abort if it raised, commit otherwise; either way
\* the writer lock is released, and the handler returns or the exception
\* propagates
Exit(p) ==
    /\ pc[p] = "exit"
    /\ IF loc[p].exc # ""
       THEN /\ store' = store
            /\ ret' = [ret EXCEPT ![p] =
                         [st |-> "raised", flag |-> FALSE, exc |-> loc[p].exc]]
       ELSE /\ store' = ApplyPuts(store, dirty[p])
            /\ ret' = [ret EXCEPT ![p].st = "ok"]
    /\ writer' = 0
    /\ pc' = [pc EXCEPT ![p] = "done"]
    /\ UNCHANGED <<call, view, loc, dirty, calls, qvars>>

\* the read-only handler a call names, applied to the snapshot s
Handle(s, c) ==
    CASE c.op = "search"       -> search(s, c.field, c.value, c.page)
      [] c.op = "get_row"      -> get_row(s, c.key)
      [] c.op = "list_keys"    -> list_keys(s, c.page)
      [] c.op = "count"        -> count(s, c.prefix, c.field, c.value)
      [] c.op = "next_pending" -> next_pending(s, c.field, c.after)

\* read-only calls made while mutation calls are under way
ReadCalls ==
    {[NoCall EXCEPT !.op = "search", !.field = f, !.value = PyInt(1),
                    !.page = 1] : f \in Fields}
    \cup {[NoCall EXCEPT !.op = "get_row", !.key = k] : k \in MutKeys}
    \cup {[NoCall EXCEPT !.op = "list_keys", !.page = 1]}
    \cup {[NoCall EXCEPT !.op = "count", !.field = f, !.value = PyInt(1)] :
             f \in Fields}
    \cup {[NoCall EXCEPT !.op = "next_pending", !.field = f] : f \in Fields}

\* a read-only handler runs in a read transaction ("with env.begin() as
\* txn:"): it takes no lock, reads the committed store and puts nothing
ReadOnly ==
    /\ qcall = NoCall
    /\ calls < MaxCalls
    /\ calls' = calls + 1
    /\ \E c \in ReadCalls :
          /\ qcall' = c
          /\ qout' = Handle(store, c)
    /\ UNCHANGED <<store, writer, pc, call, view, loc, dirty, ret>>

Next ==
    \/ \E p \in Procs :
          \/ CreateRecord(p)
          \/ SetValue(p)
          \/ SetColumns(p)
          \/ Begin(p)
          \/ Get(p)
          \/ RunBody(p)
          \/ Exit(p)
    \/ ReadOnly
    \/ Respond

Spec == Init /\ [][Next]_vars

-----------------------------------------------------------------------------
(* Claims about the mutation handlers *)

\* caller p leaves its with block in this step
Exits(p) == pc[p] = "exit" /\ pc'[p] = "done"

\* s without the record at key k
Without(s, k) ==
    LET keep(r) == r.k # k
    IN  SelectSeq(s, keep)

ValidKey(key) == GetRaises(key) = ""

C3_Step(p) ==
    (/\ Exits(p)
     /\ call[p].op = "create_record"
     /\ ValidKey(call[p].key))
    => LET k == call[p].key.b
           d == call[p].doc
       IN  IF HasKey(view[p], k)
           THEN /\ ret'[p].st = "ok"
                /\ ~ret'[p].flag
                /\ store' = view[p]
           ELSE Serializable(d)
                => /\ ret'[p].st = "ok"
                   /\ ret'[p].flag
                   /\ get_row(store', k).st = "ok"
                   /\ get_row(store', k).doc.some
                   /\ AsMap(get_row(store', k).doc.d) = AsMap(d)
                   /\ Without(store', k) = view[p]

\* C3: create_record(k, d), for a valid key and a JSON document, writes if
\* and only if k is absent when its transaction begins: absent, it returns
\* created=true and get_row(k) right after returns a document equal to d;
\* present, it returns created=false without raising and every key holds what
\* it held before.
C3_CreateIffAbsent == [][\A p \in Procs : C3_Step(p)]_vars

\* one caller created a key with a two-field document, the other found it there
C3_Witness ==
    \E p, q \in Procs :
        /\ p # q
        /\ pc[p] = "done" /\ pc[q] = "done"
        /\ call[p].op = "create_record" /\ call[q].op = "create_record"
        /\ call[p].key = call[q].key
        /\ Len(call[p].doc) = 2
        /\ ret[p].st = "ok" /\ ret[p].flag
        /\ ret[q].st = "ok" /\ ~ret[q].flag
        /\ get_row(store, call[p].key.b).doc.some

C7_Step(p) ==
    (/\ Exits(p)
     /\ call[p].op \in {"set_value", "set_columns"}
     /\ ValidKey(call[p].key)
     /\ ~HasKey(view[p], call[p].key.b))
    => /\ ret'[p].st = "ok"
       /\ ~ret'[p].flag
       /\ store' = view[p]
       /\ ~HasKey(store', call[p].key.b)
       /\ get_row(store', call[p].key.b).st = "ok"
       /\ get_row(store', call[p].key.b).doc = NoDoc

\* C7: set_value and set_columns on a valid key that is not in the store
\* never create it and never raise: each call returns updated=false and
\* leaves the store as it was, so the identical call made again gives the
\* same result and get_row still returns value null.
C7_MissingKeyNotUpdated == [][\A p \in Procs : C7_Step(p)]_vars

\* the identical call on a missing key, made twice
C7_Witness ==
    /\ call[1] = call[2]
    /\ call[1].op \in {"set_value", "set_columns"}
    /\ ValidKey(call[1].key)
    /\ \A p \in Procs : pc[p] = "done" /\ ret[p].st = "ok" /\ ~ret[p].flag
    /\ ~HasKey(store, call[1].key.b)

InTxn(p) == pc[p] \in {"get", "body", "exit"}

\* callers p and q made the only two calls, and both have returned
BothReturned(p, q) ==
    /\ p # q
    /\ calls = 2
    /\ pc[p] = "done" /\ pc[q] = "done"
    /\ ret[p].st = "ok" /\ ret[q].st = "ok"

\* what p's call wrote is in the store
Visible(p) ==
    /\ HasKey(store, call[p].key.b)
    /\ JsonValid(TxnGet(store, call[p].key.b))
    /\ LET data == Loads(TxnGet(store, call[p].key.b))
       IN  CASE call[p].op = "create_record" ->
                  AsMap(data) = AsMap(call[p].doc)
             [] call[p].op = "set_value" ->
                  StrictMatch(data, call[p].column, call[p].value)
             [] call[p].op = "set_columns" ->
                  \A i \in DOMAIN call[p].doc :
                     StrictMatch(data, call[p].doc[i].name, call[p].doc[i].val)

\* C8: mutation calls on one store are atomic with respect to each other:
\* the lookup, decode, merge and store steps of two calls never interleave.
\* Hence two concurrent set_value calls on one existing key for different
\* columns leave both columns set, two concurrent create_record calls for one
\* absent key return created=true exactly once, and two concurrent writes to
\* different keys both succeed and are both visible.
C8_AtomicMutations ==
    /\ \A p, q \in Procs : (p # q /\ InTxn(p)) => ~InTxn(q)
    /\ \A p \in Procs : InTxn(p) => (writer = p /\ store = view[p])
    /\ \A p, q \in Procs :
          (/\ BothReturned(p, q)
           /\ call[p].op = "set_value" /\ call[q].op = "set_value"
           /\ call[p].key = call[q].key
           /\ call[p].column # call[q].column
           /\ ret[p].flag /\ ret[q].flag)
          => (Visible(p) /\ Visible(q))
    /\ \A p, q \in Procs :
          (/\ BothReturned(p, q)
           /\ call[p].op = "create_record" /\ call[q].op = "create_record"
           /\ call[p].key = call[q].key
           /\ ~HasKey(view[p], call[p].key.b) \/ ~HasKey(view[q], call[q].key.b))
          => (ret[p].flag # ret[q].flag)
    /\ \A p, q \in Procs :
          (/\ BothReturned(p, q)
           /\ call[p].key # call[q].key
           /\ ret[p].flag /\ ret[q].flag)
          => (Visible(p) /\ Visible(q))

\* two set_value calls on one existing key, for different columns, overlapped
\* (the second had entered before the first began) and both columns are set
C8_Witness ==
    \E p, q \in Procs :
        /\ BothReturned(p, q)
        /\ call[p].op = "set_value" /\ call[q].op = "set_value"
        /\ call[p].key = call[q].key
        /\ call[p].column # call[q].column
        /\ ret[p].flag /\ ret[q].flag
        /\ view[p] # view[q]
        /\ Visible(p) /\ Visible(q)

C9_Step(p) ==
    (Exits(p) /\ ret'[p].st = "raised")
    => /\ store' = view[p]
       /\ store' = store
       /\ writer' = 0
       /\ \A q \in Procs : CanBeginWrite(q)'

\* C9: a mutation call that raises (stored bytes that are no JSON, a value
\* that is not JSON-serializable, a rejected key) is all-or-nothing: every
\* key holds what it held before the call, the merge is not written, and
\* the write transaction is released so that a later call can proceed.
C9_FailedMutationAllOrNothing == [][\A p \in Procs : C9_Step(p)]_vars

\* a call raised TypeError after merging into an existing document, and the
\* other caller's mutation went through on the store contents it had seen
C9_Witness ==
    \E p, q \in Procs :
        /\ pc[p] = "done" /\ ret[p].st = "raised" /\ ret[p].exc = "TypeError"
        /\ call[p].op \in {"set_value", "set_columns"}
        /\ pc[q] = "done" /\ ret[q].st = "ok" /\ ret[q].flag
        /\ view[q] = view[p]

-----------------------------------------------------------------------------
(* Frame of the handlers *)

\* the columns a call sets, with their new values
Written(c) ==
    IF c.op = "set_value" THEN <<[name |-> c.column, val |-> c.value]>>
    ELSE c.doc

C11_Step(p) ==
    (/\ Exits(p)
     /\ call[p].op \in {"set_value", "set_columns"}
     /\ ret'[p].st = "ok"
     /\ ret'[p].flag)
    => LET k == call[p].key.b
           old == Loads(TxnGet(view[p], k))
           new == Loads(TxnGet(store', k))
           upd == Written(call[p])
       IN  /\ HasKey(view[p], k)
           /\ AllKeys(store') = AllKeys(view[p])
           /\ Without(store', k) = Without(view[p], k)
           /\ JsonValid(TxnGet(store', k))
           /\ Names(new) = Names(old) \cup Names(upd)
           /\ \A f \in Names(upd) : DictGet(new, f) = DictGet(upd, f)
           /\ \A f \in Names(old) \ Names(upd) :
                 HasName(new, f) /\ DictGet(new, f) = DictGet(old, f)

\* a read-only handler is called in this step
Reads == qcall = NoCall /\ qcall' # NoCall

\* C11: a successful set_value or set_columns on an existing key sets the
\* named columns of that key's document (adding those that were absent) and
\* changes nothing else: its other fields, the set of keys and every other
\* key's document stay as they were.  search, get_row, list_keys, count and
\* next_pending leave the whole store unchanged.
C11_Frame ==
    [][/\ \A p \in Procs : C11_Step(p)
       /\ Reads => store' = store]_vars

\* set_value added a column to a document, whose other fields and the other
\* key's record are as they were, and a read-only call followed
C11_Witness ==
    \E p \in Procs :
        /\ pc[p] = "done"
        /\ call[p].op = "set_value"
        /\ call[p].column = "extra"
        /\ ret[p].st = "ok" /\ ret[p].flag
        /\ Len(store) = 2
        /\ store = TxnPut(view[p], call[p].key.b,
                          Dumps(<<[name |-> "id", val |-> PyInt(1)],
                                  [name |-> "status", val |-> PyInt(0)],
                                  [name |-> "extra", val |-> PyInt(1)]>>))
        /\ qcall.op \in {"search", "get_row", "list_keys", "count",
                         "next_pending"}
        /\ qout.st = "ok"

====
